---- MODULE Spec2Model ----
(***************************************************************************)
(* Model of the coordinate transformation engine of                        *)
(* Astronomia/chapters/coordinates.py (transformar and its helpers) and of *)
(* the utility module Astronomia/core/utils.py it calls.                   *)
(*                                                                         *)
(* Angles.  An internal radian value is an integer number of ticks, one    *)
(* tick being one milli-arcsecond (pi / 648000000 rad), so that degrees,   *)
(* hours, sexagesimal triplets and the program's constants are all exact.  *)
(* A decimal value that is not a whole number of ticks of its own unit is  *)
(* a rational <<numerator, denominator>>.                                   *)
(*                                                                         *)
(* Exceptions.  Every operator that models a Python function returns an    *)
(* outcome record [kind, detail, val]: kind = "ok" carries the returned    *)
(* value, any other kind is the exception the function raises.             *)
(***************************************************************************)
EXTENDS Integers, Sequences, FiniteSets, TLC

\* ------------------------------------------------------------------------
\* Bounds of the model
\* ------------------------------------------------------------------------
MaxCoord == 1      \* scalar coordinates range over 0 .. MaxCoord
MaxKwargs == 2     \* a call supplies at most MaxKwargs context keywords
MaxTheta == 25     \* unit round trips: decimal angles in -MaxTheta .. MaxTheta
MaxTripletDeg == 1 \* unit round trips: first component of a triplet in
                   \* -MaxTripletDeg .. MaxTripletDeg

\* ------------------------------------------------------------------------
\* Angle scale
\* ------------------------------------------------------------------------
TicksPerDeg == 3600 * 1000
HoursToDeg == 15
QuarterTurn == 90 * TicksPerDeg          \* np.pi / 2
HalfTurn == 180 * TicksPerDeg            \* np.pi
FullTurn == 360 * TicksPerDeg            \* 2 * np.pi

radians(d) == d * TicksPerDeg
degrees(r) == <<r, TicksPerDeg>>

Abs(x) == IF x < 0 THEN -x ELSE x
Sign(x) == IF x < 0 THEN -1 ELSE IF x = 0 THEN 0 ELSE 1

\* ------------------------------------------------------------------------
\* Tags
\* ------------------------------------------------------------------------
HORIZONTAL == "horizontal"
HORARIO == "horario"
ECUATORIAL == "ecuatorial"
ECLIPTICO == "ecliptico"
GALACTICO == "galactico"
Sistema == {HORIZONTAL, HORARIO, ECUATORIAL, ECLIPTICO, GALACTICO}

RAD == "rad"
DEG == "deg"
HOUR == "hour"
DMS == "dms"
HMS == "hms"
Unidad == {RAD, DEG, HOUR, DMS, HMS}

\* Tags a caller can pass although the engine does not recognize them.
OtroSistema == "supergalactico"
OtraUnidad == "grad"
SistemaTags == Sistema \cup {OtroSistema}
UnidadTags == Unidad \cup {OtraUnidad}

CanonKeys == {"phi", "TS", "epsilon"}
AltKeys == {"phi_deg", "TS_h", "TS_deg", "epsilon_deg"}
Keys == CanonKeys \cup AltKeys

\* ------------------------------------------------------------------------
\* Outcomes
\* ------------------------------------------------------------------------
Ok(v) == [kind |-> "ok", detail |-> "", val |-> v]
Raise(k, d) == [kind |-> k, detail |-> d, val |-> <<>>]

\* ------------------------------------------------------------------------
\* core/constants.py
\* ------------------------------------------------------------------------
EPSILON_J2000 == radians(23) + 26 * (TicksPerDeg \div 60) + 21448

\* ------------------------------------------------------------------------
\* core/utils.py
\* ------------------------------------------------------------------------
to_rad(d, m, s) ==
    LET deg == Abs(d) * TicksPerDeg + m * (TicksPerDeg \div 60)
                 + s * (TicksPerDeg \div 3600)
    IN deg * Sign(1) * Sign(IF d # 0 THEN d ELSE 1)

to_hms(rad) ==
    LET r == rad % FullTurn
        perHour == HoursToDeg * TicksPerDeg
        h == r \div perHour
        remH == r % perHour
        perMin == perHour \div 60
        m == remH \div perMin
        remM == remH % perMin
    IN <<h, m, <<remM, perMin \div 60>>>>

to_dms(rad) ==
    LET sign == IF rad >= 0 THEN 1 ELSE -1
        a == Abs(rad)
        d == a \div TicksPerDeg
        remD == a % TicksPerDeg
        perMin == TicksPerDeg \div 60
        m == remD \div perMin
        remM == remD % perMin
    IN <<sign * d, m, <<remM, perMin \div 60>>>>

normalize_pi(angle) == ((angle + HalfTurn) % FullTurn) - HalfTurn

\* The names the utility module defines.
UtilsNames == {"to_rad", "to_hms", "to_dms", "normalize_pi"}

\* utils.<name>(*args): the attribute is looked up first, then the arguments
\* are evaluated and the function applied.
UtilsCall(name, args) ==
    IF name \notin UtilsNames
    THEN Raise("AttributeError", name)
    ELSE Ok(CASE name = "to_rad" -> to_rad(args[1], args[2], args[3])
              [] name = "to_hms" -> to_hms(args[1])
              [] name = "to_dms" -> to_dms(args[1])
              [] name = "normalize_pi" -> normalize_pi(args[1]))

\* ------------------------------------------------------------------------
\* Dictionaries (Python dict as a function on the set of its keys)
\* ------------------------------------------------------------------------
Pop(d, k) == [x \in (DOMAIN d) \ {k} |-> d[x]]
Put(d, k, v) == [x \in (DOMAIN d) \cup {k} |-> IF x = k THEN v ELSE d[x]]
Get(d, k, default) == IF k \in DOMAIN d THEN d[k] ELSE default

Has(s, e) == \E i \in 1..Len(s) : s[i] = e
Count(s, e) == Cardinality({i \in 1..Len(s) : s[i] = e})
Pos(s, e) == CHOOSE i \in 1..Len(s) : s[i] = e

\* ------------------------------------------------------------------------
\* chapters/coordinates.py: context
\* ------------------------------------------------------------------------
\* Variant: an alternate-unit key is converted only when the canonical key
\* was not supplied.
_normalizar_contexto_canon_first(kw) ==
    LET c0 == kw
        c1 == IF "phi_deg" \in DOMAIN c0 /\ "phi" \notin DOMAIN c0
              THEN Put(Pop(c0, "phi_deg"), "phi", radians(c0["phi_deg"]))
              ELSE c0
        c2 == IF "TS_h" \in DOMAIN c1 /\ "TS" \notin DOMAIN c1
              THEN Put(Pop(c1, "TS_h"), "TS", radians(c1["TS_h"] * HoursToDeg))
              ELSE IF "TS_deg" \in DOMAIN c1 /\ "TS" \notin DOMAIN c1
                   THEN Put(Pop(c1, "TS_deg"), "TS", radians(c1["TS_deg"]))
                   ELSE c1
        c3 == IF "epsilon_deg" \in DOMAIN c2 /\ "epsilon" \notin DOMAIN c2
              THEN Put(Pop(c2, "epsilon_deg"), "epsilon",
                       radians(c2["epsilon_deg"]))
              ELSE c2
    IN c3

\* Variant: the alternate-unit keys are read with ctx[...] instead of
\* ctx.pop(...), so they stay in the resolved context.
_normalizar_contexto_no_pop(kw) ==
    LET c0 == kw
        c1 == IF "phi_deg" \in DOMAIN c0
              THEN Put(c0, "phi", radians(c0["phi_deg"]))
              ELSE c0
        c2 == IF "TS_h" \in DOMAIN c1
              THEN Put(c1, "TS", radians(c1["TS_h"] * HoursToDeg))
              ELSE IF "TS_deg" \in DOMAIN c1
                   THEN Put(c1, "TS", radians(c1["TS_deg"]))
                   ELSE c1
        c3 == IF "epsilon_deg" \in DOMAIN c2
              THEN Put(c2, "epsilon", radians(c2["epsilon_deg"]))
              ELSE c2
    IN c3

_normalizar_contexto(kw) ==
    LET c0 == kw
        c1 == IF "phi_deg" \in DOMAIN c0
              THEN Put(Pop(c0, "phi_deg"), "phi", radians(c0["phi_deg"]))
              ELSE c0
        c2 == IF "TS_h" \in DOMAIN c1
              THEN Put(Pop(c1, "TS_h"), "TS", radians(c1["TS_h"] * HoursToDeg))
              ELSE IF "TS_deg" \in DOMAIN c1
                   THEN Put(Pop(c1, "TS_deg"), "TS", radians(c1["TS_deg"]))
                   ELSE c1
        c3 == IF "epsilon_deg" \in DOMAIN c2
              THEN Put(Pop(c2, "epsilon_deg"), "epsilon",
                       radians(c2["epsilon_deg"]))
              ELSE c2
    IN c3

RECURSIVE _validar_ctx(_, _, _)
_validar_ctx(c, keys, sistema) ==
    IF keys = <<>> THEN Ok(<<>>)
    ELSE IF Head(keys) \notin DOMAIN c
         THEN Raise("MissingContext", Head(keys))
         ELSE _validar_ctx(c, Tail(keys), sistema)

\* ------------------------------------------------------------------------
\* chapters/coordinates.py: units
\* ------------------------------------------------------------------------
\* Variant: the unknown-unit check is skipped for a time-like coordinate,
\* which is passed through unconverted.
_input_a_rad_time_unchecked(val, unidad, es_tiempo) ==
    CASE unidad = RAD -> Ok(val)
      [] unidad = DEG -> Ok(radians(val))
      [] unidad = HOUR -> Ok(radians(val * HoursToDeg))
      [] unidad = DMS -> UtilsCall("to_rad", val)
      [] unidad = HMS -> UtilsCall("hms_to_rad", val)
      [] OTHER -> IF es_tiempo THEN Ok(val)
                  ELSE Raise("InvalidUnit", "entrada")

_input_a_rad(val, unidad, es_tiempo) ==
    CASE unidad = RAD -> Ok(val)
      [] unidad = DEG -> Ok(radians(val))
      [] unidad = HOUR -> Ok(radians(val * HoursToDeg))
      [] unidad = DMS -> UtilsCall("to_rad", val)
      [] unidad = HMS -> UtilsCall("hms_to_rad", val)
      [] OTHER -> Raise("InvalidUnit", "entrada")

\* Variant: no final else branch, an unknown unit returns the radian value.
_rad_a_output_no_else(val_rad, unidad, es_tiempo) ==
    CASE unidad = RAD -> Ok(val_rad)
      [] unidad = DEG -> Ok(degrees(val_rad))
      [] unidad = HOUR ->
            Ok(<<val_rad % (24 * HoursToDeg * TicksPerDeg),
                 HoursToDeg * TicksPerDeg>>)
      [] unidad = DMS -> UtilsCall("rad_to_dms", <<val_rad>>)
      [] unidad = HMS -> UtilsCall("rad_to_hms", <<val_rad>>)
      [] OTHER -> Ok(val_rad)

_rad_a_output(val_rad, unidad, es_tiempo) ==
    CASE unidad = RAD -> Ok(val_rad)
      [] unidad = DEG -> Ok(degrees(val_rad))
      [] unidad = HOUR ->
            Ok(<<val_rad % (24 * HoursToDeg * TicksPerDeg),
                 HoursToDeg * TicksPerDeg>>)
      [] unidad = DMS -> UtilsCall("rad_to_dms", <<val_rad>>)
      [] unidad = HMS -> UtilsCall("rad_to_hms", <<val_rad>>)
      [] OTHER -> Raise("InvalidUnit", "salida")

\* Lines 91-93 and 100-101 of transformar: the altitude / zenith-distance
\* complement, with the event it leaves in the call's log.
\* Variant: the ingress complement is forgotten.
altura_a_cenital_omitted(origen_, v) == [val |-> v, ev |-> <<>>]

altura_a_cenital(origen_, v) ==
    IF origen_ = HORIZONTAL
    THEN [val |-> QuarterTurn - v, ev |-> <<"comp_in">>]
    ELSE [val |-> v, ev |-> <<>>]

cenital_a_altura(destino_, v) ==
    IF destino_ = HORIZONTAL
    THEN [val |-> QuarterTurn - v, ev |-> <<"comp_out">>]
    ELSE [val |-> v, ev |-> <<>>]

\* ------------------------------------------------------------------------
\* chapters/coordinates.py: transform library.  The trigonometric values
\* are kept as terms <<operation, operands>> over tick-valued angles.
\* ------------------------------------------------------------------------
Sin(x) == <<"sin", x>>
Cos(x) == <<"cos", x>>
Neg(x) == <<"neg", x>>
Add(x, y) == <<"add", x, y>>
Sub(x, y) == <<"sub", x, y>>
Mul(x, y) == <<"mul", x, y>>
Clip(x) == <<"clip", x, -1, 1>>
Arcsin(x) == <<"arcsin", x>>
Arccos(x) == <<"arccos", x>>
Arctan2(y, x) == <<"arctan2", y, x>>

\* return utils.normalize_rad(lon), lat
ReturnNormalized(lon, lat) ==
    LET n == UtilsCall("normalize_rad", <<lon>>)
    IN IF n.kind # "ok" THEN n ELSE Ok(<<n.val, lat>>)

_horizontal_to_horary(A, z, phi) ==
    LET sin_delta == Add(Mul(Mul(Neg(Sin(z)), Cos(A)), Cos(phi)),
                         Mul(Cos(z), Sin(phi)))
        delta == Arcsin(Clip(sin_delta))
        y == Mul(Sin(z), Sin(A))
        x == Add(Mul(Mul(Sin(z), Cos(A)), Sin(phi)), Mul(Cos(z), Cos(phi)))
        H == Arctan2(y, x)
    IN ReturnNormalized(H, delta)

_horary_to_horizontal(H, delta, phi) ==
    LET cos_z == Add(Mul(Mul(Cos(delta), Cos(H)), Cos(phi)),
                     Mul(Sin(delta), Sin(phi)))
        z == Arccos(Clip(cos_z))
        num == Mul(Cos(delta), Sin(H))
        den == Sub(Mul(Mul(Cos(delta), Cos(H)), Sin(phi)),
                   Mul(Sin(delta), Cos(phi)))
        A == Arctan2(num, den)
    IN ReturnNormalized(A, z)

_equatorial_to_ecliptic(alpha, delta, eps) ==
    LET sin_b == Add(Mul(Mul(Neg(Cos(delta)), Sin(alpha)), Sin(eps)),
                     Mul(Sin(delta), Cos(eps)))
        beta == Arcsin(Clip(sin_b))
        y == Add(Mul(Mul(Cos(delta), Sin(alpha)), Cos(eps)),
                 Mul(Sin(delta), Sin(eps)))
        x == Mul(Cos(delta), Cos(alpha))
        lamb == Arctan2(y, x)
    IN ReturnNormalized(lamb, beta)

_ecliptic_to_equatorial(lamb, beta, eps) ==
    LET sin_d == Add(Mul(Mul(Cos(beta), Sin(lamb)), Sin(eps)),
                     Mul(Sin(beta), Cos(eps)))
        delta == Arcsin(Clip(sin_d))
        y == Sub(Mul(Mul(Cos(beta), Sin(lamb)), Cos(eps)),
                 Mul(Sin(beta), Sin(eps)))
        x == Mul(Cos(beta), Cos(lamb))
        alpha == Arctan2(y, x)
    IN ReturnNormalized(alpha, delta)

\* Galactic pole, J2000 (np.radians of the decimal degrees in the source).
GalAp == 19285948 * (TicksPerDeg \div 100000)
GalDp == 2712825 * (TicksPerDeg \div 100000)
GalLnode == 3293192 * (TicksPerDeg \div 100000)

_equatorial_to_galactic(alpha, delta) ==
    LET diff == Sub(alpha, GalAp)
        sin_b == Add(Mul(Sin(delta), Sin(GalDp)),
                     Mul(Mul(Cos(delta), Cos(GalDp)), Cos(diff)))
        b == Arcsin(Clip(sin_b))
        y == Mul(Cos(delta), Sin(diff))
        x == Sub(Mul(Sin(delta), Cos(GalDp)),
                 Mul(Mul(Cos(delta), Sin(GalDp)), Cos(diff)))
        l == Sub(GalLnode, Arctan2(y, x))
    IN ReturnNormalized(l, b)

_galactic_to_equatorial(l, b) ==
    LET diff_l == Sub(l, GalLnode)
        y == Mul(Cos(b), Sin(diff_l))
        x == Sub(Mul(Sin(b), Cos(GalDp)),
                 Mul(Mul(Cos(b), Sin(GalDp)), Cos(diff_l)))
        sin_d == Add(Mul(Sin(b), Sin(GalDp)),
                     Mul(Mul(Cos(b), Cos(GalDp)), Cos(diff_l)))
        delta == Arcsin(Clip(sin_d))
        alpha == Add(Arctan2(y, x), GalAp)
    IN ReturnNormalized(alpha, delta)

\* ------------------------------------------------------------------------
\* chapters/coordinates.py: hub router.  A router outcome also carries
\* legs, the transform-library steps it entered, in order.
\* ------------------------------------------------------------------------
Routed(o, legs) ==
    [kind |-> o.kind, detail |-> o.detail, val |-> o.val, legs |-> legs]

\* PASO 1: origen -> hub (alpha, delta)
Paso1(c1_, c2_, origen_, c) ==
    CASE origen_ = ECUATORIAL -> Routed(Ok(<<c1_, c2_>>), <<>>)
      [] origen_ = HORARIO ->
            LET v == _validar_ctx(c, <<"TS">>, origen_)
                a == UtilsCall("normalize_rad", <<Sub(c["TS"], c1_)>>)
            IN IF v.kind # "ok" THEN Routed(v, <<>>)
               ELSE IF a.kind # "ok" THEN Routed(a, <<>>)
               ELSE Routed(Ok(<<a.val, c2_>>), <<"horario_a_ecuatorial">>)
      [] origen_ = HORIZONTAL ->
            LET v == _validar_ctx(c, <<"phi", "TS">>, origen_)
                h == _horizontal_to_horary(c1_, c2_, c["phi"])
                a == UtilsCall("normalize_rad", <<Sub(c["TS"], h.val[1])>>)
            IN IF v.kind # "ok" THEN Routed(v, <<>>)
               ELSE IF h.kind # "ok"
                    THEN Routed(h, <<"_horizontal_to_horary">>)
               ELSE IF a.kind # "ok"
                    THEN Routed(a, <<"_horizontal_to_horary">>)
               ELSE Routed(Ok(<<a.val, h.val[2]>>),
                           <<"_horizontal_to_horary", "horario_a_ecuatorial">>)
      [] origen_ = ECLIPTICO ->
            LET eps == Get(c, "epsilon", EPSILON_J2000)
            IN Routed(_ecliptic_to_equatorial(c1_, c2_, eps),
                      <<"_ecliptic_to_equatorial">>)
      [] origen_ = GALACTICO ->
            Routed(_galactic_to_equatorial(c1_, c2_),
                   <<"_galactic_to_equatorial">>)
      [] OTHER -> Routed(Ok(<<0, 0>>), <<>>)

\* PASO 2: hub -> destino
Paso2(alpha, delta, destino_, c) ==
    CASE destino_ = ECUATORIAL -> Routed(Ok(<<alpha, delta>>), <<>>)
      [] destino_ = HORARIO ->
            LET v == _validar_ctx(c, <<"TS">>, destino_)
                h == UtilsCall("normalize_rad", <<Sub(c["TS"], alpha)>>)
            IN IF v.kind # "ok" THEN Routed(v, <<>>)
               ELSE IF h.kind # "ok" THEN Routed(h, <<>>)
               ELSE Routed(Ok(<<h.val, delta>>), <<"ecuatorial_a_horario">>)
      [] destino_ = HORIZONTAL ->
            LET v == _validar_ctx(c, <<"phi", "TS">>, destino_)
                h == UtilsCall("normalize_rad", <<Sub(c["TS"], alpha)>>)
            IN IF v.kind # "ok" THEN Routed(v, <<>>)
               ELSE IF h.kind # "ok" THEN Routed(h, <<>>)
               ELSE Routed(_horary_to_horizontal(h.val, delta, c["phi"]),
                           <<"ecuatorial_a_horario", "_horary_to_horizontal">>)
      [] destino_ = ECLIPTICO ->
            LET eps == Get(c, "epsilon", EPSILON_J2000)
            IN Routed(_equatorial_to_ecliptic(alpha, delta, eps),
                      <<"_equatorial_to_ecliptic">>)
      [] destino_ = GALACTICO ->
            Routed(_equatorial_to_galactic(alpha, delta),
                   <<"_equatorial_to_galactic">>)
      [] OTHER -> Routed(Raise("UnsupportedSystem", destino_), <<>>)

_nucleo_transformacion(c1_, c2_, origen_, destino_, c) ==
    IF origen_ = destino_ THEN Routed(Ok(<<c1_, c2_>>), <<>>)
    ELSE LET p1 == Paso1(c1_, c2_, origen_, c)
             p2 == Paso2(p1.val[1], p1.val[2], destino_, c)
         IN IF p1.kind # "ok" THEN p1
            ELSE Routed(p2, p1.legs \o p2.legs)

\* ------------------------------------------------------------------------
\* State: one call of transformar at a time, from its arguments to its
\* return value or exception.
\* ------------------------------------------------------------------------
VARIABLES pc, c1, c2, origen, destino, unidad_in, unidad_out, kwargs,
          ctx, val_rad, out_rad, res, err, log

vars == <<pc, c1, c2, origen, destino, unidad_in, unidad_out, kwargs,
          ctx, val_rad, out_rad, res, err, log>>

args == <<c1, c2, origen, destino, unidad_in, unidad_out, kwargs>>

NoError == [kind |-> "none", detail |-> "", en |-> ""]
Raised(o, en) == [kind |-> o.kind, detail |-> o.detail, en |-> en]

\* Inputs of a call
Scalars == 0..MaxCoord
Triplets == {<<d, 30, 0>> : d \in Scalars}
CoordsOf(unidad) == IF unidad \in {DMS, HMS} THEN Triplets ELSE Scalars
\* every supplied keyword has the value 1 (one radian tick, one degree or
\* one hour, depending on the key)
KwargsSets ==
    UNION {[S -> {1}] :
             S \in {T \in SUBSET Keys : Cardinality(T) <= MaxKwargs}}

Init ==
    /\ pc = "idle"
    /\ c1 = 0 /\ c2 = 0
    /\ origen = "" /\ destino = ""
    /\ unidad_in = "" /\ unidad_out = ""
    /\ kwargs = <<>> /\ ctx = <<>>
    /\ val_rad = <<>> /\ out_rad = <<>> /\ res = <<>>
    /\ err = NoError
    /\ log = <<>>

\* transformar is called; line 80: ctx = _normalizar_contexto(kwargs)
Llamar ==
    /\ pc = "idle"
    /\ \E o \in SistemaTags, d \in SistemaTags,
          ui \in UnidadTags, uo \in UnidadTags, kw \in KwargsSets :
         \E a \in CoordsOf(ui), b \in CoordsOf(ui) :
            /\ c1' = a /\ c2' = b
            /\ origen' = o /\ destino' = d
            /\ unidad_in' = ui /\ unidad_out' = uo
            /\ kwargs' = kw
            /\ ctx' = _normalizar_contexto(kw)
    /\ log' = <<"ctx">>
    /\ pc' = "ingress"
    /\ UNCHANGED <<val_rad, out_rad, res, err>>

\* lines 86-93: both coordinates to radians, then the Horizontal complement
Ingresar ==
    /\ pc = "ingress"
    /\ LET r1 == _input_a_rad(c1, unidad_in, origen \in {HORARIO, ECUATORIAL})
           r2 == _input_a_rad(c2, unidad_in, FALSE)
           z == altura_a_cenital(origen, r2.val)
       IN IF r1.kind # "ok"
          THEN /\ err' = Raised(r1, "ingress")
               /\ pc' = "raised"
               /\ UNCHANGED <<val_rad, log>>
          ELSE IF r2.kind # "ok"
          THEN /\ err' = Raised(r2, "ingress")
               /\ pc' = "raised"
               /\ log' = log \o <<"in1">>
               /\ UNCHANGED val_rad
          ELSE /\ val_rad' = <<r1.val, z.val>>
               /\ log' = log \o <<"in1", "in2">> \o z.ev
               /\ pc' = "router"
               /\ UNCHANGED err
    /\ UNCHANGED <<args, ctx, out_rad, res>>

\* line 96: the hub router
Encaminar ==
    /\ pc = "router"
    /\ LET r == _nucleo_transformacion(val_rad[1], val_rad[2],
                                       origen, destino, ctx)
       IN /\ log' = log \o <<"router">> \o r.legs
          /\ IF r.kind # "ok"
             THEN /\ err' = Raised(r, "router")
                  /\ pc' = "raised"
                  /\ UNCHANGED out_rad
             ELSE /\ out_rad' = r.val
                  /\ pc' = "egress"
                  /\ UNCHANGED err
    /\ UNCHANGED <<args, ctx, val_rad, res>>

\* lines 100-108: the Horizontal complement, then both outputs formatted
Egresar ==
    /\ pc = "egress"
    /\ LET z == cenital_a_altura(destino, out_rad[2])
           es_tiempo_salida == destino \in {HORARIO, ECUATORIAL}
           o1 == _rad_a_output(out_rad[1], unidad_out, es_tiempo_salida)
           o2 == _rad_a_output(z.val, unidad_out, FALSE)
       IN IF o1.kind # "ok"
          THEN /\ err' = Raised(o1, "egress")
               /\ pc' = "raised"
               /\ log' = log \o z.ev
               /\ UNCHANGED res
          ELSE IF o2.kind # "ok"
          THEN /\ err' = Raised(o2, "egress")
               /\ pc' = "raised"
               /\ log' = log \o z.ev \o <<"out1">>
               /\ UNCHANGED res
          ELSE /\ res' = <<o1.val, o2.val>>
               /\ log' = log \o z.ev \o <<"out1", "out2">>
               /\ pc' = "returned"
               /\ UNCHANGED err
    /\ UNCHANGED <<args, ctx, val_rad, out_rad>>

\* the call is over (result returned or exception propagated to the caller);
\* nothing of it survives into the next call
Retornar ==
    /\ pc \in {"returned", "raised"}
    /\ pc' = "idle"
    /\ c1' = 0 /\ c2' = 0
    /\ origen' = "" /\ destino' = ""
    /\ unidad_in' = "" /\ unidad_out' = ""
    /\ kwargs' = <<>> /\ ctx' = <<>>
    /\ val_rad' = <<>> /\ out_rad' = <<>> /\ res' = <<>>
    /\ err' = NoError
    /\ log' = <<>>

Next == Llamar \/ Ingresar \/ Encaminar \/ Egresar \/ Retornar

Spec == Init /\ [][Next]_vars

TypeOK ==
    /\ pc \in {"idle", "ingress", "router", "egress", "returned", "raised"}
    /\ pc = "raised" <=> err.kind # "none"

\* ------------------------------------------------------------------------
\* Vocabulary of the properties
\* ------------------------------------------------------------------------
Terminado == pc \in {"returned", "raised"}
RouterRan == Has(log, "router")
IngressDone == Has(log, "in2")
EgressReached == pc = "returned" \/ (pc = "raised" /\ err.en = "egress")

Reconocidos == origen \in Sistema /\ destino \in Sistema
UnidadesReconocidas == unidad_in \in Unidad /\ unidad_out \in Unidad

NeedsTS(s) == s \in {HORARIO, HORIZONTAL}
NeedsPhi(s) == s = HORIZONTAL

\* the context keys the two systems of the call require and the resolved
\* context lacks
MissingKeys ==
    {k \in {"TS"} : (NeedsTS(origen) \/ NeedsTS(destino))
                      /\ k \notin DOMAIN ctx}
    \cup {k \in {"phi"} : (NeedsPhi(origen) \/ NeedsPhi(destino))
                            /\ k \notin DOMAIN ctx}

LegNames == {"_horizontal_to_horary", "_horary_to_horizontal",
             "_equatorial_to_ecliptic", "_ecliptic_to_equatorial",
             "_equatorial_to_galactic", "_galactic_to_equatorial",
             "horario_a_ecuatorial", "ecuatorial_a_horario"}
IsLeg(e) == e \in LegNames
LegsLogged == SelectSeq(log, IsLeg)

\* the route the hub-and-spoke design prescribes
LegToHub(s) ==
    CASE s = ECUATORIAL -> <<>>
      [] s = HORARIO -> <<"horario_a_ecuatorial">>
      [] s = HORIZONTAL -> <<"_horizontal_to_horary", "horario_a_ecuatorial">>
      [] s = ECLIPTICO -> <<"_ecliptic_to_equatorial">>
      [] s = GALACTICO -> <<"_galactic_to_equatorial">>
LegFromHub(s) ==
    CASE s = ECUATORIAL -> <<>>
      [] s = HORARIO -> <<"ecuatorial_a_horario">>
      [] s = HORIZONTAL -> <<"ecuatorial_a_horario", "_horary_to_horizontal">>
      [] s = ECLIPTICO -> <<"_equatorial_to_ecliptic">>
      [] s = GALACTICO -> <<"_equatorial_to_galactic">>

\* ------------------------------------------------------------------------
\* C1: whenever the origin tag or the destination tag is not one of the
\* five recognized systems, the router ends in an unsupported-system error.
\* ------------------------------------------------------------------------
C1_UnsupportedSystemOnAnyBadTag ==
    (RouterRan /\ ~Reconocidos) => err.kind = "UnsupportedSystem"

\* ------------------------------------------------------------------------
\* C2: for recognized origin # destination the router ends in a
\* missing-parameter error exactly when TS is absent and Horary or
\* Horizontal is involved, or phi is absent and Horizontal is involved,
\* and the error names a missing key.
\* ------------------------------------------------------------------------
C2_MissingParameterExactly ==
    (RouterRan /\ Reconocidos /\ origen # destino) =>
        /\ (err.kind = "MissingContext") <=> (MissingKeys # {})
        /\ (err.kind = "MissingContext") => (err.detail \in MissingKeys)

\* ------------------------------------------------------------------------
\* C3: a finished call fails only with one of the three documented errors,
\* and a call with recognized systems, recognized units and every required
\* context key returns a result.
\* ------------------------------------------------------------------------
C3_OnlyDocumentedErrors ==
    Terminado =>
        /\ err.kind \in {"none", "InvalidUnit", "UnsupportedSystem",
                         "MissingContext"}
        /\ (Reconocidos /\ UnidadesReconocidas /\ MissingKeys = {})
             => pc = "returned"

\* ------------------------------------------------------------------------
\* C4: for recognized origin # destination (with the context both systems
\* need) the router returns its result after exactly the two legs
\* origin -> Equatorial -> destination, Horizontal passing through Horary.
\* ------------------------------------------------------------------------
C4_TwoLegsThroughEquatorial ==
    (RouterRan /\ Reconocidos /\ origen # destino /\ MissingKeys = {}) =>
        /\ err.kind = "none"
        /\ LegsLogged = LegToHub(origen) \o LegFromHub(destino)

\* ------------------------------------------------------------------------
\* C5: with origin = destination (and recognized units) the call returns
\* the two inputs re-expressed in the output unit, with no leg run, whatever
\* the context.
\* ------------------------------------------------------------------------
C5_IdentityReexpressed ==
    (Terminado /\ origen = destino /\ UnidadesReconocidas) =>
        /\ err.kind = "none"
        /\ LegsLogged = <<>>
        /\ res = <<_rad_a_output(_input_a_rad(c1, unidad_in, FALSE).val,
                                 unidad_out, FALSE).val,
                   _rad_a_output(_input_a_rad(c2, unidad_in, FALSE).val,
                                 unidad_out, FALSE).val>>

\* ------------------------------------------------------------------------
\* C6 (as stated): a call that ends in one of the three documented errors
\* has converted no coordinate and entered no leg.
\* ------------------------------------------------------------------------
C6_AllErrorsEager ==
    (pc = "raised" /\ err.kind \in {"InvalidUnit", "UnsupportedSystem",
                                    "MissingContext"}) =>
        /\ ~Has(log, "in1") /\ ~Has(log, "in2")
        /\ LegsLogged = <<>>

\* C6 (amended): only an invalid input unit is detected before any
\* computation (no coordinate converted, router not entered).  An
\* unsupported-system or missing-context error is raised inside the router,
\* after both coordinates were converted to radians; an invalid output unit
\* is raised on egress, after both conversions and after the router returned.
C6_ErrorsAtPointOfUse ==
    pc = "raised" =>
        /\ (err.kind = "InvalidUnit" /\ err.detail = "entrada")
             => (log = <<"ctx">> /\ err.en = "ingress")
        /\ (err.kind \in {"UnsupportedSystem", "MissingContext"})
             => (Has(log, "in1") /\ IngressDone /\ err.en = "router")
        /\ (err.kind = "InvalidUnit" /\ err.detail = "salida")
             => (Has(log, "in1") /\ IngressDone /\ RouterRan
                 /\ err.en = "egress")

C6_Witness ==
    /\ pc = "raised"
    /\ err.kind = "UnsupportedSystem"
    /\ IngressDone
    /\ unidad_in = DEG

\* ------------------------------------------------------------------------
\* C7 (as stated): a finished call whose input unit or output unit is
\* unrecognized has failed with an invalid-unit error (calls stopped by an
\* unresolved utility helper, the subject of C3, set aside).
\* ------------------------------------------------------------------------
C7_InvalidUnitAlways ==
    (Terminado /\ ~UnidadesReconocidas /\ err.kind # "AttributeError")
        => err.kind = "InvalidUnit"

\* C7 (amended): an unrecognized input unit always fails with the invalid
\* (input) unit error on ingress; an unrecognized output unit fails with the
\* invalid (output) unit error when ingress and the router complete, and
\* otherwise the call fails with the earlier error of ingress or router;
\* no call with an unrecognized unit tag returns a result.
C7_InvalidUnit ==
    Terminado =>
        /\ unidad_in \notin Unidad
             => (err.kind = "InvalidUnit" /\ err.detail = "entrada"
                 /\ err.en = "ingress")
        /\ ~UnidadesReconocidas => pc = "raised"
        /\ (unidad_out \notin Unidad /\ EgressReached)
             => (err.kind = "InvalidUnit" /\ err.detail = "salida")
        /\ (unidad_out \notin Unidad /\ unidad_in \in Unidad
              /\ ~EgressReached)
             => (err.en \in {"ingress", "router"} /\ err.kind # "InvalidUnit")

C7_Witness ==
    /\ pc = "raised"
    /\ unidad_in \in Unidad
    /\ unidad_out \notin Unidad
    /\ err.kind = "InvalidUnit"
    /\ err.detail = "salida"

CanonOf(alt) ==
    CASE alt = "phi_deg" -> "phi"
      [] alt = "TS_h" -> "TS"
      [] alt = "TS_deg" -> "TS"
      [] alt = "epsilon_deg" -> "epsilon"

InRadians(alt, v) ==
    CASE alt = "phi_deg" -> v * TicksPerDeg
      [] alt = "TS_h" -> v * HoursToDeg * TicksPerDeg
      [] alt = "TS_deg" -> v * TicksPerDeg
      [] alt = "epsilon_deg" -> v * TicksPerDeg

Supplied == DOMAIN kwargs

\* the alternate the resolver converts for canonical key k, "" if none
Preferred(k) ==
    CASE k = "phi" -> IF "phi_deg" \in Supplied THEN "phi_deg" ELSE ""
      [] k = "TS" -> IF "TS_h" \in Supplied THEN "TS_h"
                     ELSE IF "TS_deg" \in Supplied THEN "TS_deg" ELSE ""
      [] k = "epsilon" -> IF "epsilon_deg" \in Supplied THEN "epsilon_deg"
                          ELSE ""

\* ------------------------------------------------------------------------
\* C9 (as stated): every canonical key the caller supplied keeps its
\* supplied value in the resolved context, also next to an alternate key.
\* ------------------------------------------------------------------------
C9_CanonicalUntouched ==
    pc # "idle" =>
        \A k \in CanonKeys \cap Supplied :
            k \in DOMAIN ctx /\ ctx[k] = kwargs[k]

\* C9 (amended): a supplied canonical key keeps its supplied value when no
\* alternate-unit key of the same quantity is supplied in the same call;
\* when one is, the canonical key is overwritten with the converted
\* alternate value.
C9_CanonicalKeptUnlessAlternate ==
    pc # "idle" =>
        \A k \in CanonKeys \cap Supplied :
            /\ k \in DOMAIN ctx
            /\ ctx[k] = IF Preferred(k) = "" THEN kwargs[k]
                        ELSE InRadians(Preferred(k), kwargs[Preferred(k)])

C9_Witness ==
    /\ pc # "idle"
    /\ {"phi", "phi_deg"} \subseteq Supplied
    /\ ctx["phi"] # kwargs["phi"]

\* ------------------------------------------------------------------------
\* C10 (as stated): the resolved context holds none of the four alternate
\* keys, holds for every supplied alternate its canonical key with the
\* converted value, and holds phi or TS only if supplied in some form.
\* ------------------------------------------------------------------------
C10_AllAlternatesConsumed ==
    pc # "idle" =>
        /\ AltKeys \cap DOMAIN ctx = {}
        /\ \A a \in AltKeys \cap Supplied :
              /\ CanonOf(a) \in DOMAIN ctx
              /\ ctx[CanonOf(a)] = InRadians(a, kwargs[a])
        /\ "phi" \in DOMAIN ctx => {"phi", "phi_deg"} \cap Supplied # {}
        /\ "TS" \in DOMAIN ctx => {"TS", "TS_h", "TS_deg"} \cap Supplied # {}

\* C10 (amended): every supplied alternate key is consumed and its canonical
\* key holds the converted value, except TS_deg when TS_h is supplied in the
\* same call: then TS holds the converted TS_h and TS_deg stays in the
\* resolved context with its supplied value.  The resolved context holds
\* phi or TS only if the caller supplied that quantity in some form.
C10_AlternatesConsumedButShadowed ==
    pc # "idle" =>
        LET shadowed == IF {"TS_h", "TS_deg"} \subseteq Supplied
                        THEN {"TS_deg"} ELSE {}
        IN /\ AltKeys \cap DOMAIN ctx = shadowed
           /\ \A a \in shadowed : ctx[a] = kwargs[a]
           /\ \A a \in (AltKeys \cap Supplied) \ shadowed :
                 /\ CanonOf(a) \in DOMAIN ctx
                 /\ ctx[CanonOf(a)] = InRadians(a, kwargs[a])
           /\ "phi" \in DOMAIN ctx => {"phi", "phi_deg"} \cap Supplied # {}
           /\ "TS" \in DOMAIN ctx
                => {"TS", "TS_h", "TS_deg"} \cap Supplied # {}

C10_Witness ==
    /\ pc # "idle"
    /\ {"TS_h", "TS_deg"} \subseteq Supplied
    /\ "TS_deg" \in DOMAIN ctx
    /\ ctx["TS"] = InRadians("TS_h", kwargs["TS_h"])

\* ------------------------------------------------------------------------
\* C11: every longitude-like angle returned by a transform-library function
\* or by a non-identity router call lies in [0, 2*pi).
\* ------------------------------------------------------------------------
Normalized(x) == x \in 0..(FullTurn - 1)

\* the six transform-library functions applied to the radian coordinates of
\* the call (those that need phi only when the context holds it)
LibraryOutcomes ==
    LET eps == Get(ctx, "epsilon", EPSILON_J2000)
    IN {_equatorial_to_ecliptic(val_rad[1], val_rad[2], eps),
        _ecliptic_to_equatorial(val_rad[1], val_rad[2], eps),
        _equatorial_to_galactic(val_rad[1], val_rad[2]),
        _galactic_to_equatorial(val_rad[1], val_rad[2])}
       \cup (IF "phi" \in DOMAIN ctx
             THEN {_horizontal_to_horary(val_rad[1], val_rad[2], ctx["phi"]),
                   _horary_to_horizontal(val_rad[1], val_rad[2], ctx["phi"])}
             ELSE {})

C11_LongitudesNormalized ==
    /\ (RouterRan /\ origen # destino) =>
         \A r \in LibraryOutcomes : r.kind = "ok" /\ Normalized(r.val[1])
    /\ (RouterRan /\ Reconocidos /\ origen # destino /\ MissingKeys = {})
         => (err.kind = "none" /\ Normalized(out_rad[1]))

\* ------------------------------------------------------------------------
\* C12: Horary -> Equatorial returns ((TS - H) mod 2*pi, delta) and
\* Equatorial -> Horary returns ((TS - alpha) mod 2*pi, delta), so that
\* applying the relation to the result gives back the first coordinate
\* modulo 2*pi.
\* ------------------------------------------------------------------------
C12_HoraryEquatorialLinear ==
    (RouterRan /\ "TS" \in DOMAIN ctx
       /\ <<origen, destino>> \in {<<HORARIO, ECUATORIAL>>,
                                   <<ECUATORIAL, HORARIO>>}) =>
        /\ err.kind = "none"
        /\ out_rad = <<(ctx["TS"] - val_rad[1]) % FullTurn, val_rad[2]>>
        /\ (ctx["TS"] - out_rad[1]) % FullTurn = val_rad[1] % FullTurn

\* ------------------------------------------------------------------------
\* Unit round trips.  The engine's toRadians / fromRadians pair is
\* _input_a_rad / _rad_a_output; transformar applies exactly this pair, and
\* nothing else, to each coordinate of a call with origin = destination
\* Equatorial.  SpecUnidades starts such calls, with the same unit on both
\* sides and angles that include negative values and values of a full
\* day or more, in the state transformar is in once the (empty) context is
\* resolved.
\* ------------------------------------------------------------------------
Thetas == (-MaxTheta)..MaxTheta
ThetaTriplets ==
    {<<d, m, s>> : d \in (-MaxTripletDeg)..MaxTripletDeg,
                   m \in {0, 59}, s \in {0, 59}}
ThetasOf(unidad) == IF unidad \in {DMS, HMS} THEN ThetaTriplets ELSE Thetas

InitUnidades ==
    /\ pc = "ingress"
    /\ unidad_in \in {DEG, HOUR, DMS, HMS}
    /\ unidad_out = unidad_in
    /\ c1 \in ThetasOf(unidad_in)
    /\ c2 \in ThetasOf(unidad_in)
    /\ origen = ECUATORIAL /\ destino = ECUATORIAL
    /\ kwargs = <<>> /\ ctx = _normalizar_contexto(<<>>)
    /\ val_rad = <<>> /\ out_rad = <<>> /\ res = <<>>
    /\ err = NoError
    /\ log = <<"ctx">>

NextUnidades == Ingresar \/ Encaminar \/ Egresar

SpecUnidades == InitUnidades /\ [][NextUnidades]_vars

\* theta as fromRadians writes it when the round trip is exact
SameAngle(theta, unidad) ==
    CASE unidad = DEG -> <<theta * TicksPerDeg, TicksPerDeg>>
      [] unidad = HOUR -> <<(theta % 24) * (HoursToDeg * TicksPerDeg),
                            HoursToDeg * TicksPerDeg>>
      [] unidad = DMS -> <<theta[1], theta[2], <<theta[3] * 1000, 1000>>>>
      [] unidad = HMS -> <<theta[1] % 24, theta[2],
                           <<theta[3] * 15000, 15000>>>>

\* ------------------------------------------------------------------------
\* C13: for every angle theta and every unit U in {deg, hour, dms, hms},
\* converting theta from U to radians and back to U returns theta modulo
\* the unit's normalization range.
\* ------------------------------------------------------------------------
C13_UnitRoundTrip ==
    Terminado =>
        /\ err.kind = "none"
        /\ res = <<SameAngle(c1, unidad_in), SameAngle(c2, unidad_in)>>

\* The part of C13 that does not depend on the sexagesimal helpers: the
\* round trip of the decimal units deg and hour.
UnitRoundTripDecimal ==
    (Terminado /\ unidad_in \in {DEG, HOUR}) =>
        /\ err.kind = "none"
        /\ res = <<SameAngle(c1, unidad_in), SameAngle(c2, unidad_in)>>

\* ------------------------------------------------------------------------
\* transformar as one function of its arguments: the steps of Llamar,
\* Ingresar, Encaminar and Egresar composed, with the outcome the caller
\* sees.  It serves to feed the result of one call into a second call.
\* ------------------------------------------------------------------------
transformar(a, b, o, d, ui, uo, kw) ==
    LET c == _normalizar_contexto(kw)
        r1 == _input_a_rad(a, ui, o \in {HORARIO, ECUATORIAL})
        r2 == _input_a_rad(b, ui, FALSE)
        zi == altura_a_cenital(o, r2.val)
        n == _nucleo_transformacion(r1.val, zi.val, o, d, c)
        zo == cenital_a_altura(d, n.val[2])
        o1 == _rad_a_output(n.val[1], uo, d \in {HORARIO, ECUATORIAL})
        o2 == _rad_a_output(zo.val, uo, FALSE)
    IN IF r1.kind # "ok" THEN r1
       ELSE IF r2.kind # "ok" THEN r2
       ELSE IF n.kind # "ok" THEN Raise(n.kind, n.detail)
       ELSE IF o1.kind # "ok" THEN o1
       ELSE IF o2.kind # "ok" THEN o2
       ELSE Ok(<<o1.val, o2.val>>)

\* the stepwise call and the composed function agree on every finished call
StepsAgreeWithTransformar ==
    Terminado =>
        LET t == transformar(c1, c2, origen, destino,
                             unidad_in, unidad_out, kwargs)
        IN IF pc = "returned" THEN t = Ok(res)
           ELSE t.kind = err.kind /\ t.detail = err.detail

\* ------------------------------------------------------------------------
\* C14: for recognized S1 # S2 and a context that holds what both need,
\* transforming (c1, c2) from S1 to S2 and the result back from S2 to S1
\* with the same context reproduces (c1, c2) (radians in, radians out; the
\* model's arithmetic is exact, so the tolerance is zero); in particular
\* Galactic -> Equatorial undoes Equatorial -> Galactic.
\* ------------------------------------------------------------------------
C14_RoundTrip ==
    /\ (Terminado /\ Reconocidos /\ origen # destino /\ MissingKeys = {}
          /\ unidad_in = RAD /\ unidad_out = RAD) =>
         /\ pc = "returned"
         /\ transformar(res[1], res[2], destino, origen,
                        unidad_out, unidad_in, kwargs) = Ok(<<c1, c2>>)
    /\ (Terminado /\ {origen, destino} = {ECUATORIAL, GALACTICO}) =>
         LET g == _equatorial_to_galactic(val_rad[1], val_rad[2])
         IN /\ g.kind = "ok"
            /\ _galactic_to_equatorial(g.val[1], g.val[2]) = Ok(val_rad)
====
